---- MODULE Spec2Model ----
(***************************************************************************)
(* octet-sdn: the encoder (generator / multiGenerator, CommonIterator,     *)
(* StreamIterator, hasCircular) and the decoder (parser) of                *)
(* src/src/generator.ts, as a state machine.                               *)
(*                                                                         *)
(* A Uint8Array is a sequence of numbers 0..255.  A JavaScript value is a  *)
(* record with a field t naming its kind:                                  *)
(*   null, undefined, boolean (v: BOOLEAN), number (v: the name of a       *)
(*   double), string (v: sequence of Unicode scalar values),               *)
(*   uint8array (v: bytes), asynciterable (v: the items the source will    *)
(*   deliver, each [u8, bytes]; u8 = FALSE is an item that is not a        *)
(*   Uint8Array), array (v: sequence of values), object (v: sequence of    *)
(*   [key, value] in for-in order), function (a kind generator rejects),   *)
(*   ref (id: an object of Heap, for shared and cyclic structures).        *)
(***************************************************************************)
EXTENDS Integers, Sequences, FiniteSets, TLC

VARIABLES
  input,    \* the call under study: [api, values]
  top,      \* the iterator the consumer holds (NoIter before iteration starts)
  phase,    \* "init" | "iterating" | "ended" | "decoded"
  out,      \* the Uint8Arrays yielded so far, in order
  last,     \* outcome of the latest consumer call: "none" | "value" | "done" |
            \* "throw" | "returned"
  lastErr,  \* the message of the latest thrown error ("" when none)
  failed,   \* some next() has rejected
  returned, \* the consumer has called return()
  opts,     \* the options handed to parser
  dec,      \* what parser returned or threw (NoDec before it ran)
  calls     \* the next() calls suspended at an await: [pending, overlapped]

vars ==
  <<input, top, phase, out, last, lastErr, failed, returned, opts, dec, calls>>

---------------------------------------------------------------------------
(* Program constants.  The two chunk sizes are scaled: TLC's integers are  *)
(* 32-bit and a sequence of 4294967295 bytes cannot be enumerated, so the  *)
(* soft flush threshold 65536 is modelled by SoftLimit and the hard cap    *)
(* 4294967295 by HardCap, keeping SoftLimit < HardCap.                     *)

SoftLimit == 3
HardCap == 5

\* Bounds of the model: the largest limit a decode is given, the longest
\* array and object built, the most pieces a caller's byte source delivers.
MaxLimit == 3
MaxLen == 3
MaxPieces == 3

\* the most next() calls suspended on one iterator's source at a time
MaxPending == 2

\* Infinity, the default of every limit: above any size the model builds.
Infinity == 1000000

\* TYPES of ./constants.js: eight distinct one-byte codes.
TYPES == [NULL |-> 0, UNDEFINED |-> 1, BOOLEAN |-> 2, NUMBER |-> 3,
          STRING |-> 4, STREAM |-> 5, ARRAY |-> 6, OBJECT |-> 7]

\* this.prefix = undefined / this.remain = undefined: both hold a non-empty
\* Uint8Array or undefined, so the empty sequence stands for undefined.
Undefined == <<>>

\* iterator === undefined in multiGenerator; top before iteration starts.
NoIter == [cls |-> "none"]

---------------------------------------------------------------------------
(* Uint8Array helpers                                                      *)

RECURSIVE concat(_)
\* concat of async-iterable-split: the pieces joined in order.
concat(pieces) ==
  IF pieces = <<>> THEN <<>> ELSE Head(pieces) \o concat(Tail(pieces))

\* dv.setUint32(0, n, false): four bytes, big-endian, modulo 2^32 (the
\* model's sizes stay far below 2^31).
setUint32(n) ==
  <<(n \div 16777216) % 256, (n \div 65536) % 256, (n \div 256) % 256, n % 256>>

\* dv.setFloat64(0, +value, false) on the doubles the model uses.
setFloat64(name) ==
  CASE name = "0"         -> <<0, 0, 0, 0, 0, 0, 0, 0>>
    [] name = "-0"        -> <<128, 0, 0, 0, 0, 0, 0, 0>>
    [] name = "1"         -> <<63, 240, 0, 0, 0, 0, 0, 0>>
    [] name = "0.1"       -> <<63, 185, 153, 153, 153, 153, 153, 154>>
    [] name = "NaN"       -> <<127, 248, 0, 0, 0, 0, 0, 0>>
    [] name = "Infinity"  -> <<127, 240, 0, 0, 0, 0, 0, 0>>
    [] name = "-Infinity" -> <<255, 240, 0, 0, 0, 0, 0, 0>>

Doubles == {"0", "-0", "1", "0.1", "NaN", "Infinity", "-Infinity"}

\* new TextEncoder().encode(s): UTF-8 of a sequence of scalar values.
Utf8Char(cp) ==
  IF cp < 128 THEN <<cp>>
  ELSE IF cp < 2048 THEN <<192 + (cp \div 64), 128 + (cp % 64)>>
  ELSE IF cp < 65536 THEN
    <<224 + (cp \div 4096), 128 + ((cp \div 64) % 64), 128 + (cp % 64)>>
  ELSE <<240 + (cp \div 262144), 128 + ((cp \div 4096) % 64),
         128 + ((cp \div 64) % 64), 128 + (cp % 64)>>

RECURSIVE TextEncode(_)
TextEncode(s) ==
  IF s = <<>> THEN <<>> ELSE Utf8Char(Head(s)) \o TextEncode(Tail(s))

---------------------------------------------------------------------------
(* The object graph the values may point into: [t |-> "ref", id |-> i] is  *)
(* the object Heap[i].  Objects 1 and 2,3 lie on cycles; 4 is acyclic and  *)
(* may be shared.                                                          *)

Ref(i) == [t |-> "ref", id |-> i]
Str(s) == [t |-> "string", v |-> s]
Arr(s) == [t |-> "array", v |-> s]
Obj(s) == [t |-> "object", v |-> s]
Pair(k, v) == [key |-> k, value |-> v]

Heap ==
  <<Arr(<<[t |-> "null"], Ref(1)>>),
    Obj(<<Pair(<<97>>, Ref(3))>>),
    Arr(<<Ref(2)>>),
    Arr(<<[t |-> "boolean", v |-> TRUE]>>)>>

Deref(value) == IF value.t = "ref" THEN Heap[value.id] ELSE value

---------------------------------------------------------------------------
(* Iterator results.  item is what an upstream source delivered:           *)
(* [u8 |-> TRUE, bytes |-> b] a Uint8Array, [u8 |-> FALSE, ...] anything   *)
(* else.                                                                   *)

U8(b) == [u8 |-> TRUE, bytes |-> b]
NotU8 == [u8 |-> FALSE, bytes |-> <<>>]

Yield(item) == [k |-> "value", item |-> item, err |-> ""]
DoneResult == [k |-> "done", item |-> NotU8, err |-> ""]
Throw(msg) == [k |-> "throw", item |-> NotU8, err |-> msg]

(* Upstream sources.                                                       *)
(* An array iterator ([] or [bytes]): next only, no return method.         *)
(* An async source (value[Symbol.asyncIterator]() of a caller's stream):   *)
(* delivers its items in order, then ends; return() releases it, after     *)
(* which it delivers nothing.  reads counts the next() calls it received.  *)

ArrayIter(items) == [cls |-> "array", items |-> items, at |-> 1]
AsyncSource(items) ==
  [cls |-> "async", items |-> items, at |-> 1, reads |-> 0, returned |-> FALSE]

ArrayIterNext(it) ==
  IF it.at > Len(it.items)
    THEN [it |-> it, r |-> DoneResult]
    ELSE [it |-> [it EXCEPT !.at = @ + 1], r |-> Yield(it.items[it.at])]

AsyncSourceNext(it) ==
  LET it1 == [it EXCEPT !.reads = @ + 1] IN
  IF it.returned \/ it.at > Len(it.items)
    THEN [it |-> it1, r |-> DoneResult]
    ELSE [it |-> [it1 EXCEPT !.at = @ + 1], r |-> Yield(it.items[it.at])]

AsyncSourceReturn(it) ==
  [it |-> [it EXCEPT !.returned = TRUE], r |-> DoneResult]

\* new CommonIterator(type, source)
CommonIterator(type, source) ==
  [cls |-> "Common", done |-> FALSE, prefix |-> <<type>>, source |-> source]

\* new StreamIterator(type, source)
StreamIterator(type, source) ==
  [cls |-> "Stream", done |-> FALSE, prefix |-> <<type>>, source |-> source,
   chunkData |-> <<>>, chunkSize |-> 0, remain |-> Undefined]

\* multiGenerator(values)[Symbol.asyncIterator]()
MultiIter(values) ==
  [cls |-> "Multi", index |-> 0, values |-> values, iterator |-> NoIter]

\* Fault injection for C2: the terminator appended on every final flush,
\* also when the final chunk is itself empty.
flushChunk_AlwaysTerminator(it, done) ==
  LET withHeader == <<setUint32(it.chunkSize)>> \o it.chunkData
      chunkData == IF done THEN Append(withHeader, <<0, 0, 0, 0>>) ELSE withHeader
  IN [it |-> [it EXCEPT !.chunkData = <<>>, !.chunkSize = 0],
      chunk |-> concat(chunkData)]

\* StreamIterator.flushChunk(done)
flushChunk(it, done) ==
  LET withHeader == <<setUint32(it.chunkSize)>> \o it.chunkData
      chunkData == IF it.chunkSize # 0 /\ done
                     THEN Append(withHeader, <<0, 0, 0, 0>>)
                     ELSE withHeader
  IN [it |-> [it EXCEPT !.chunkData = <<>>, !.chunkSize = 0],
      chunk |-> concat(chunkData)]

\* Fault injection for C7: the piece staged whole, whatever the cap.
stage_Uncapped(it, value) ==
  [it EXCEPT !.chunkData = Append(@, value), !.chunkSize = @ + Len(value)]

\* Fault injection for C17: of a piece that does not fit, the part that
\* fits is staged and the rest is dropped.
stage_Dropping(it, value) ==
  LET space == HardCap - it.chunkSize IN
  IF space >= Len(value)
    THEN [it EXCEPT !.chunkData = Append(@, value), !.chunkSize = @ + Len(value)]
    ELSE [it EXCEPT !.chunkData = Append(@, SubSeq(value, 1, space)),
                    !.chunkSize = HardCap]

\* StreamIterator.next, the staging of one piece: all of it, or the prefix
\* that keeps chunkSize at most the hard cap, the rest going to remain.
stage(it, value) ==
  LET space == HardCap - it.chunkSize IN
  IF space >= Len(value)
    THEN [it EXCEPT !.chunkData = Append(@, value), !.chunkSize = @ + Len(value)]
    ELSE [it EXCEPT !.chunkData = Append(@, SubSeq(value, 1, space)),
                    !.chunkSize = HardCap,
                    !.remain = SubSeq(value, space + 1, Len(value))]

---------------------------------------------------------------------------
(* hasCircular(value, refs): refs is the WeakSet, passed along and handed  *)
(* back, so that add and delete act on the one set as in the code.  An     *)
(* object is identified by its reference; a literal (a value written in    *)
(* place) by itself, which no ancestor of it can equal.                    *)

IsObjectType(value) == Deref(value).t \in {"array", "object"}

\* the values for-in reaches: value[key] for every key
Children(value) ==
  LET val == Deref(value) IN
  IF val.t = "array" THEN val.v
  ELSE IF val.t = "object" THEN [i \in 1..Len(val.v) |-> val.v[i].value]
  ELSE <<>>

RECURSIVE hasCircular(_, _), hasCircularLoop(_, _, _, _)

\* Fault injection for C19: a traversal that keeps every object it has
\* visited in the set, instead of the objects on the current path only.
hasCircularLoop_Retaining(value, kids, i, refs) ==
  IF i > Len(kids) THEN [res |-> FALSE, refs |-> refs]
  ELSE LET c == hasCircular(kids[i], refs) IN
       IF c.res THEN [res |-> TRUE, refs |-> c.refs]
       ELSE hasCircularLoop(value, kids, i + 1, c.refs)

hasCircular(value, refs) ==
  IF value \in refs THEN [res |-> TRUE, refs |-> refs]
  ELSE IF IsObjectType(value)
    THEN hasCircularLoop(value, Children(value), 1, refs \cup {value})
    ELSE [res |-> FALSE, refs |-> refs]

hasCircularLoop(value, kids, i, refs) ==
  IF i > Len(kids) THEN [res |-> FALSE, refs |-> refs \ {value}]
  ELSE LET c == hasCircular(kids[i], refs) IN
       IF c.res THEN [res |-> TRUE, refs |-> c.refs]
       ELSE hasCircularLoop(value, kids, i + 1, c.refs)

---------------------------------------------------------------------------
(* generator(value)[Symbol.asyncIterator](): the iterator of one value, or *)
(* the error thrown while making it.                                       *)

Made(it) == [k |-> "ok", it |-> it, err |-> ""]
NotMade(msg) == [k |-> "throw", it |-> NoIter, err |-> msg]

\* for (const key in value) { flatted.push(key); flatted.push(value[key]) }
RECURSIVE flatted(_)
flatted(pairs) ==
  IF pairs = <<>> THEN <<>>
  ELSE <<Str(Head(pairs).key), Head(pairs).value>> \o flatted(Tail(pairs))

\* the "[object Array]" branch
generatorArray(value) ==
  IF hasCircular(value, {}).res THEN NotMade("Circular reference!")
  ELSE Made(StreamIterator(TYPES.ARRAY, MultiIter(Deref(value).v)))

\* Fault injection for C8: the Object branch without its cycle check.
generatorObject_Unchecked(value) ==
  Made(StreamIterator(TYPES.OBJECT, MultiIter(flatted(Deref(value).v))))

\* the "[object Object]" branch
generatorObject(value) ==
  IF hasCircular(value, {}).res THEN NotMade("Circular reference!")
  ELSE Made(StreamIterator(TYPES.OBJECT, MultiIter(flatted(Deref(value).v))))

generator(value) ==
  LET val == Deref(value) IN
  CASE val.t = "null" -> Made(CommonIterator(TYPES.NULL, ArrayIter(<<>>)))
    [] val.t = "undefined" -> Made(CommonIterator(TYPES.UNDEFINED, ArrayIter(<<>>)))
    [] val.t = "boolean" ->
         Made(CommonIterator(TYPES.BOOLEAN, ArrayIter(<<U8(<<IF val.v THEN 1 ELSE 0>>)>>)))
    [] val.t = "number" ->
         Made(CommonIterator(TYPES.NUMBER, ArrayIter(<<U8(setFloat64(val.v))>>)))
    [] val.t = "string" ->
         Made(StreamIterator(TYPES.STRING, ArrayIter(<<U8(TextEncode(val.v))>>)))
    [] val.t = "uint8array" ->
         Made(StreamIterator(TYPES.STREAM, ArrayIter(<<U8(val.v)>>)))
    [] val.t = "asynciterable" ->
         Made(StreamIterator(TYPES.STREAM, AsyncSource(val.v)))
    [] val.t = "array" -> generatorArray(value)
    [] val.t = "object" -> generatorObject(value)
    [] OTHER -> NotMade("Invalid data")

---------------------------------------------------------------------------
(* next() and return() of every iterator class.  Each takes the iterator   *)
(* and gives [it |-> the iterator afterwards, r |-> the result].           *)

RECURSIVE ItNext(_), CommonNext(_), StreamNext(_), MultiNext(_), ItReturn(_)

\* CommonIterator.next, from "const item = await this.source.next()" on
\* The one value of a set of one: The({F(x) : x \in {e}}) is F(e) with e
\* computed once, as a statement computes what it awaits once before it goes on.
The(S) == CHOOSE r \in S : TRUE

CommonPulled(it, item) ==
  LET it1 == [it EXCEPT !.source = item.it] IN
  IF item.r.k = "throw" THEN [it |-> it1, r |-> item.r]
  ELSE IF item.r.k = "done" THEN [it |-> [it1 EXCEPT !.done = TRUE], r |-> DoneResult]
  ELSE IF ~item.r.item.u8 THEN [it |-> it1, r |-> Throw("Invalid data")]
  ELSE [it |-> it1, r |-> item.r]

\* CommonIterator.next
CommonNext(it) ==
  IF it.done THEN [it |-> it, r |-> DoneResult]
  ELSE IF it.prefix # Undefined
    THEN [it |-> [it EXCEPT !.prefix = Undefined], r |-> Yield(U8(it.prefix))]
  ELSE The({CommonPulled(it, item) : item \in {ItNext(it.source)}})

\* return { done: false, value: this.flushChunk(done) }
Flushed(f) == [it |-> f.it, r |-> Yield(U8(f.chunk))]

\* StreamIterator.next, from the item on (this.remain, or the item the
\* source delivered)
StreamPulled(it, item) ==
  LET it1 == [it EXCEPT !.source = item.it,
                        !.remain = IF Len(it.remain) > 0 THEN Undefined ELSE @]
  IN IF item.r.k = "throw" THEN [it |-> it1, r |-> item.r]
     ELSE IF item.r.k = "done" THEN Flushed(flushChunk([it1 EXCEPT !.done = TRUE], TRUE))
     ELSE IF ~item.r.item.u8 THEN [it |-> it1, r |-> Throw("Invalid data")]
     ELSE The({StreamNext(staged) : staged \in {stage(it1, item.r.item.bytes)}})

\* Fault injection for C18: next() without its test of this.done.
StreamNext_Undone(it) ==
  IF it.prefix # Undefined
    THEN [it |-> [it EXCEPT !.prefix = Undefined], r |-> Yield(U8(it.prefix))]
  ELSE IF it.chunkSize >= SoftLimit THEN Flushed(flushChunk(it, FALSE))
  ELSE The({StreamPulled(it, item) :
               item \in {IF Len(it.remain) > 0
                           THEN [it |-> it.source, r |-> Yield(U8(it.remain))]
                           ELSE ItNext(it.source)}})

\* Fault injection for C16: the flush between pieces waits until the
\* staged size is above the threshold.
StreamNext_Above(it) ==
  IF it.done THEN [it |-> it, r |-> DoneResult]
  ELSE IF it.prefix # Undefined
    THEN [it |-> [it EXCEPT !.prefix = Undefined], r |-> Yield(U8(it.prefix))]
  ELSE IF it.chunkSize > SoftLimit THEN Flushed(flushChunk(it, FALSE))
  ELSE The({StreamPulled(it, item) :
               item \in {IF Len(it.remain) > 0
                           THEN [it |-> it.source, r |-> Yield(U8(it.remain))]
                           ELSE ItNext(it.source)}})

\* StreamIterator.next
StreamNext(it) ==
  IF it.done THEN [it |-> it, r |-> DoneResult]
  ELSE IF it.prefix # Undefined
    THEN [it |-> [it EXCEPT !.prefix = Undefined], r |-> Yield(U8(it.prefix))]
  ELSE IF it.chunkSize >= SoftLimit THEN Flushed(flushChunk(it, FALSE))
  ELSE The({StreamPulled(it, item) :
               item \in {IF Len(it.remain) > 0
                           THEN [it |-> it.source, r |-> Yield(U8(it.remain))]
                           ELSE ItNext(it.source)}})

\* Fault injection for C11: the sequence moves on to the next value after
\* each item, whether or not the current value's iterator is exhausted.
MultiPulled_Hasty(it, item) ==
  IF item.r.k # "done"
    THEN [it |-> [it EXCEPT !.index = @ + 1, !.iterator = NoIter], r |-> item.r]
  ELSE The({MultiNext(nxt) : nxt \in {[it EXCEPT !.index = @ + 1, !.iterator = NoIter]}})

\* next of multiGenerator's iterator, from "const item = await iterator.next()" on
MultiPulled(it, item) ==
  IF item.r.k # "done" THEN [it |-> [it EXCEPT !.iterator = item.it], r |-> item.r]
  ELSE The({MultiNext(nxt) : nxt \in {[it EXCEPT !.index = @ + 1, !.iterator = NoIter]}})

\* next of multiGenerator's iterator, with the iterator of the current value
\* (made now if there was none, which may throw)
MultiMade(it, made) ==
  IF made.k = "throw" THEN [it |-> it, r |-> Throw(made.err)]
  ELSE The({MultiPulled(it, item) : item \in {ItNext(made.it)}})

\* next of the iterator multiGenerator returns
MultiNext(it) ==
  IF it.index = Len(it.values) THEN [it |-> it, r |-> DoneResult]
  ELSE The({MultiMade(it, made) :
               made \in {IF it.iterator = NoIter
                           THEN generator(it.values[it.index + 1])
                           ELSE Made(it.iterator)}})

ItNext(it) ==
  CASE it.cls = "array"  -> ArrayIterNext(it)
    [] it.cls = "async"  -> AsyncSourceNext(it)
    [] it.cls = "Common" -> CommonNext(it)
    [] it.cls = "Stream" -> StreamNext(it)
    [] it.cls = "Multi"  -> MultiNext(it)

\* whether iterator.return exists
HasReturn(it) == it.cls \in {"async", "Common", "Stream", "Multi"}

\* CommonIterator.return and StreamIterator.return
ClassReturn(it) ==
  LET it1 == [it EXCEPT !.done = TRUE] IN
  IF HasReturn(it.source)
    THEN LET s == ItReturn(it.source) IN [it |-> [it1 EXCEPT !.source = s.it], r |-> s.r]
    ELSE [it |-> it1, r |-> DoneResult]

\* Fault injection for C9: return() that closes the sequence and leaves the
\* iterator of the current value alone.
MultiReturn_Local(it) ==
  [it |-> [it EXCEPT !.index = Len(it.values)], r |-> DoneResult]

\* return of the iterator multiGenerator returns
MultiReturn(it) ==
  LET it1 == [it EXCEPT !.index = Len(it.values)] IN
  IF it.iterator # NoIter /\ HasReturn(it.iterator)
    THEN LET s == ItReturn(it.iterator) IN [it |-> [it1 EXCEPT !.iterator = s.it], r |-> s.r]
    ELSE [it |-> it1, r |-> DoneResult]

ItReturn(it) ==
  CASE it.cls = "async"  -> AsyncSourceReturn(it)
    [] it.cls = "Multi"  -> MultiReturn(it)
    [] OTHER             -> ClassReturn(it)

---------------------------------------------------------------------------
(* The byte source parser reads (Splitable of async-iterable-split, the    *)
(* external collaborator of the spec's section 6): "read exactly N bytes,  *)
(* fail if the source ends first", "expose the remaining chunked-stream    *)
(* content as a further byte source", "report whether any bytes remain".   *)
(* rd.buf is what is left of the root source; rd.lv[i] is the i-th nested  *)
(* sub-source, reading the chunked stream of the source below it: rem      *)
(* bytes are left of its current chunk, ended once it met the zero-length  *)
(* chunk.  Sub-sources read lazily, byte by byte, from the source below.   *)
(* rd.calls lists the paths argument of every parser call, in call order.  *)

Reader(bytes) == [buf |-> bytes, lv |-> <<>>, calls |-> <<>>]

\* dv.getUint32(0, false)
getUint32(b) == ((b[1] * 256 + b[2]) * 256 + b[3]) * 256 + b[4]

RECURSIVE Fill(_, _), ReadByte(_, _), readEnoughSize(_, _, _)

\* inside a chunk: a byte is there if the source below has one
FillBelow(f) == [st |-> IF f.st = "data" THEN "data" ELSE "error", rd |-> f.rd]

\* Fault injection for C14: a source that ends where a chunk's length is
\* due counts as the end of the chunked payload.
FillHeader_EndOnShort(sp, h) ==
  IF ~h.ok THEN [st |-> "end", rd |-> [h.rd EXCEPT !.lv[sp].ended = TRUE]]
  ELSE IF getUint32(h.bytes) = 0
    THEN [st |-> "end", rd |-> [h.rd EXCEPT !.lv[sp].ended = TRUE]]
  ELSE Fill([h.rd EXCEPT !.lv[sp].rem = getUint32(h.bytes)], sp)

\* at a chunk boundary: h is the read of the next chunk's 4-byte length
FillHeader(sp, h) ==
  IF ~h.ok THEN [st |-> "error", rd |-> h.rd]
  ELSE IF getUint32(h.bytes) = 0
    THEN [st |-> "end", rd |-> [h.rd EXCEPT !.lv[sp].ended = TRUE]]
  ELSE Fill([h.rd EXCEPT !.lv[sp].rem = getUint32(h.bytes)], sp)

\* Makes source sp ready to deliver a byte: st = "data" when one is there,
\* "end" when the source has ended, "error" when the source below ended early.
Fill(rd, sp) ==
  IF sp = 0 THEN [st |-> IF rd.buf = <<>> THEN "end" ELSE "data", rd |-> rd]
  ELSE IF rd.lv[sp].ended THEN [st |-> "end", rd |-> rd]
  ELSE IF rd.lv[sp].rem > 0 THEN FillBelow(Fill(rd, sp - 1))
  ELSE FillHeader(sp, readEnoughSize(rd, sp - 1, 4))

\* a byte b read from the source below counts against the current chunk
ReadBelow(sp, b) ==
  [ok |-> b.ok, rd |-> [b.rd EXCEPT !.lv[sp].rem = @ - 1], byte |-> b.byte]

ReadFilled(sp, f) ==
  IF f.st # "data" THEN [ok |-> FALSE, rd |-> f.rd, byte |-> 0]
  ELSE IF sp = 0
    THEN [ok |-> TRUE, rd |-> [f.rd EXCEPT !.buf = Tail(@)], byte |-> Head(f.rd.buf)]
  ELSE ReadBelow(sp, ReadByte(f.rd, sp - 1))

\* one byte of source sp, or failure
ReadByte(rd, sp) == ReadFilled(sp, Fill(rd, sp))

ReadJoin(byte, more) ==
  [ok |-> more.ok, rd |-> more.rd, bytes |-> <<byte>> \o more.bytes]

ReadMore(sp, size, b) ==
  IF ~b.ok THEN [ok |-> FALSE, rd |-> b.rd, bytes |-> <<>>]
  ELSE ReadJoin(b.byte, readEnoughSize(b.rd, sp, size - 1))

\* splitable.readEnoughSize(size): exactly size bytes, or failure
readEnoughSize(rd, sp, size) ==
  IF size = 0 THEN [ok |-> TRUE, rd |-> rd, bytes |-> <<>>]
  ELSE ReadMore(sp, size, ReadByte(rd, sp))

\* await splitable.hasValue
hasValue(rd, sp) == Fill(rd, sp)

\* splitable.splitChunkedStream(), and new Splitable(subIterable) over it:
\* one more sub-source, on top of source sp (always the innermost one).
splitChunkedStream(rd, sp) ==
  [rd EXCEPT !.lv = Append(SubSeq(@, 1, sp), [rem |-> 0, ended |-> FALSE])]

ChunkRead(c) ==
  [st |-> IF c.ok THEN "chunk" ELSE "error", rd |-> c.rd, bytes |-> c.bytes]

ChunkFilled(sub, f) ==
  IF f.st # "data" THEN [st |-> f.st, rd |-> f.rd, bytes |-> <<>>]
  ELSE ChunkRead(readEnoughSize(f.rd, sub, f.rd.lv[sub].rem))

\* One step of "for await (const chunk of subIterable)": the data of the
\* next chunk, "end" at the zero-length chunk, "error" on an early end.
nextChunk(rd, sub) == ChunkFilled(sub, Fill(rd, sub))

RECURSIVE readChunks(_, _, _, _)
\* readChunkedStream with the chunk c just read: acc is what it gathered
readChunksOn(sub, maxSize, acc, c) ==
  IF c.st = "error" THEN [k |-> "throw", err |-> "Premature end", rd |-> c.rd, bytes |-> <<>>]
  ELSE IF c.st = "end" THEN [k |-> "ok", err |-> "", rd |-> c.rd, bytes |-> acc]
  ELSE IF Len(acc) + Len(c.bytes) > maxSize
    THEN [k |-> "throw", err |-> "Size exceeded", rd |-> c.rd, bytes |-> <<>>]
  ELSE readChunks(c.rd, sub, maxSize, acc \o c.bytes)

readChunks(rd, sub, maxSize, acc) == readChunksOn(sub, maxSize, acc, nextChunk(rd, sub))

\* splitable.readChunkedStream(maxSize): the whole chunked payload
readChunkedStream(rd, sp, maxSize) ==
  readChunks(splitChunkedStream(rd, sp), sp + 1, maxSize, <<>>)

---------------------------------------------------------------------------
(* TextDecoder("utf-8"), fatal: false, ignoreBOM: false.  A decoder is     *)
(* [text, need, cp, bom]: the text so far, the continuation bytes still    *)
(* awaited, the scalar value being assembled, and whether a leading        *)
(* byte-order mark U+FEFF is still to be dropped (it is, at the start of   *)
(* the text, unless ignoreBOM is set).  An ill-formed byte gives U+FFFD.   *)

BOM == 65279
ReplacementChar == 65533

TextDecoder == [text |-> <<>>, need |-> 0, cp |-> 0, bom |-> TRUE]

\* appends one decoded scalar value, dropping it when it is the leading BOM
Emit(d, cp) ==
  IF d.bom /\ cp = BOM THEN [d EXCEPT !.bom = FALSE, !.need = 0, !.cp = 0]
  ELSE [d EXCEPT !.text = Append(@, cp), !.bom = FALSE, !.need = 0, !.cp = 0]

Lead(d, b) ==
  IF b < 128 THEN Emit(d, b)
  ELSE IF b >= 192 /\ b < 224 THEN [d EXCEPT !.need = 1, !.cp = b - 192]
  ELSE IF b >= 224 /\ b < 240 THEN [d EXCEPT !.need = 2, !.cp = b - 224]
  ELSE IF b >= 240 /\ b < 248 THEN [d EXCEPT !.need = 3, !.cp = b - 240]
  ELSE Emit(d, ReplacementChar)

DecodeByte(d, b) ==
  IF d.need = 0 THEN Lead(d, b)
  ELSE IF b >= 128 /\ b < 192
    THEN IF d.need = 1 THEN Emit(d, d.cp * 64 + (b - 128))
         ELSE [d EXCEPT !.need = @ - 1, !.cp = d.cp * 64 + (b - 128)]
  ELSE Lead(Emit(d, ReplacementChar), b)

RECURSIVE decodeStream(_, _)
\* decoder.decode(chunk, { stream: true }): an unfinished character waits
decodeStream(d, bytes) ==
  IF bytes = <<>> THEN d ELSE decodeStream(DecodeByte(d, Head(bytes)), Tail(bytes))

\* the end of the input: an unfinished character is ill-formed
Flush(d) == IF d.need > 0 THEN Emit(d, ReplacementChar) ELSE d

\* new TextDecoder("utf-8").decode(bytes)
decode(bytes) == Flush(decodeStream(TextDecoder, bytes)).text

\* dv.getFloat64(0, false) on the doubles the model uses
getFloat64(bytes) ==
  IF \E n \in Doubles : setFloat64(n) = bytes
    THEN CHOOSE n \in Doubles : setFloat64(n) = bytes
    ELSE "other"

---------------------------------------------------------------------------
(* parser(splitable, options, paths).  sp names the splitable (0 the root  *)
(* source, i the i-th nested one); options is the merged _options.  The    *)
(* result is [k |-> "ok", val] or [k |-> "throw", err], with the reader.   *)

Returns(rd, val) == [k |-> "ok", err |-> "", val |-> val, rd |-> rd]
Throws(rd, msg) == [k |-> "throw", err |-> msg, val |-> [t |-> "undefined"], rd |-> rd]

Index(i) == [index |-> i]
Key(s) == [key |-> s]

\* result[key] = value on a plain object: a known key keeps its place
SetKey(pairs, key, value) ==
  IF \E i \in 1..Len(pairs) : pairs[i].key = key
    THEN [i \in 1..Len(pairs) |->
            IF pairs[i].key = key THEN Pair(key, value) ELSE pairs[i]]
    ELSE Append(pairs, Pair(key, value))

\* Fault injection for C5: the depth test off by one.
depthExceeded_Inclusive(paths, options) == Len(paths) >= options.maxDepth

\* paths.length > _options.maxDepth
depthExceeded(paths, options) == Len(paths) > options.maxDepth

\* a call of parser with these paths is on record
Called(rd, paths) == [rd EXCEPT !.calls = Append(@, paths)]

RECURSIVE parser(_, _, _, _), parseString(_, _, _, _, _),
          parseArray(_, _, _, _, _), parseObject(_, _, _, _, _, _)

\* Fault injection for C13: every payload byte but 0 read as true.
parseBoolean_Lenient(data) ==
  IF ~data.ok THEN Throws(data.rd, "Premature end")
  ELSE IF data.bytes[1] = 0 THEN Returns(data.rd, [t |-> "boolean", v |-> FALSE])
  ELSE Returns(data.rd, [t |-> "boolean", v |-> TRUE])

\* the BOOLEAN branch, data the byte read
parseBoolean(data) ==
  IF ~data.ok THEN Throws(data.rd, "Premature end")
  ELSE IF data.bytes[1] = 0 THEN Returns(data.rd, [t |-> "boolean", v |-> FALSE])
  ELSE IF data.bytes[1] = 1 THEN Returns(data.rd, [t |-> "boolean", v |-> TRUE])
  ELSE Throws(data.rd, "Invalid data")

\* the NUMBER branch, data the 8 bytes read
parseNumber(data) ==
  IF ~data.ok THEN Throws(data.rd, "Premature end")
  ELSE Returns(data.rd, [t |-> "number", v |-> getFloat64(data.bytes)])

\* the STREAM branch, raw what readChunkedStream gave
parseStream(raw) ==
  IF raw.k = "throw" THEN Throws(raw.rd, raw.err)
  ELSE Returns(raw.rd, [t |-> "uint8array", v |-> raw.bytes])

\* Fault injection for C6: the size test off by one.
parseStringChunk_Inclusive(sub, options, size, decoder, c) ==
  IF c.st = "error" THEN Throws(c.rd, "Premature end")
  ELSE IF c.st = "end" THEN Returns(c.rd, Str(decoder.text))
  ELSE IF size + Len(c.bytes) >= options.stringMaxSize
    THEN Throws(c.rd, "String size exceeded")
  ELSE parseString(c.rd, sub, options, size + Len(c.bytes), decodeStream(decoder, c.bytes))

\* the STRING branch's loop body, c the chunk the iteration delivered
parseStringChunk(sub, options, size, decoder, c) ==
  IF c.st = "error" THEN Throws(c.rd, "Premature end")
  ELSE IF c.st = "end" THEN Returns(c.rd, Str(decoder.text))
  ELSE IF size + Len(c.bytes) > options.stringMaxSize
    THEN Throws(c.rd, "String size exceeded")
  ELSE parseString(c.rd, sub, options, size + Len(c.bytes), decodeStream(decoder, c.bytes))

\* the STRING branch's for-await loop
parseString(rd, sub, options, size, decoder) ==
  parseStringChunk(sub, options, size, decoder, nextChunk(rd, sub))

\* result.push(await parser(subSplitable, _options, paths.concat(result.length)))
parseArrayPush(sub, options, paths, result, element) ==
  IF element.k = "throw" THEN element
  ELSE parseArray(element.rd, sub, options, paths, Append(result, element.val))

\* Fault injection for C4: the length test off by one.
parseArrayElement_OffByOne(sub, options, paths, result, h) ==
  IF h.st = "error" THEN Throws(h.rd, "Premature end")
  ELSE IF h.st = "end" THEN Returns(h.rd, Arr(result))
  ELSE IF Len(result) > options.arrayMaxLength
    THEN Throws(h.rd, "Array length exceeded")
  ELSE parseArrayPush(sub, options, paths, result,
                      parser(h.rd, sub, options, Append(paths, Index(Len(result)))))

\* the ARRAY branch's loop, h what "await subSplitable.hasValue" gave
parseArrayElement(sub, options, paths, result, h) ==
  IF h.st = "error" THEN Throws(h.rd, "Premature end")
  ELSE IF h.st = "end" THEN Returns(h.rd, Arr(result))
  ELSE IF Len(result) >= options.arrayMaxLength
    THEN Throws(h.rd, "Array length exceeded")
  ELSE parseArrayPush(sub, options, paths, result,
                      parser(h.rd, sub, options, Append(paths, Index(Len(result)))))

\* the ARRAY branch's while loop
parseArray(rd, sub, options, paths, result) ==
  parseArrayElement(sub, options, paths, result, hasValue(rd, sub))

\* result[key] = await parser(subSplitable, _options, paths.concat(key));
\* length is left as it was
parseObjectSet(sub, options, paths, result, length, key, value) ==
  IF value.k = "throw" THEN value
  ELSE parseObject(value.rd, sub, options, paths, SetKey(result, key, value.val), length)

\* the OBJECT branch's loop, raw the key's bytes readChunkedStream gave
parseObjectValue(sub, options, paths, result, length, raw) ==
  IF raw.k = "throw" THEN Throws(raw.rd, raw.err)
  ELSE parseObjectSet(sub, options, paths, result, length, decode(raw.bytes),
                      parser(raw.rd, sub, options, Append(paths, Key(decode(raw.bytes)))))

\* Fault injection for C15: the key's type byte read and not looked at.
parseObjectKey_AnyTag(sub, options, paths, result, length, tag) ==
  IF ~tag.ok THEN Throws(tag.rd, "Premature end")
  ELSE parseObjectValue(sub, options, paths, result, length,
                        readChunkedStream(tag.rd, sub, options.stringMaxSize))

\* the OBJECT branch's loop, tag the key's type byte
parseObjectKey(sub, options, paths, result, length, tag) ==
  IF ~tag.ok THEN Throws(tag.rd, "Premature end")
  ELSE IF tag.bytes[1] # TYPES.STRING THEN Throws(tag.rd, "Invalid key")
  ELSE parseObjectValue(sub, options, paths, result, length,
                        readChunkedStream(tag.rd, sub, options.stringMaxSize))

\* the OBJECT branch's loop, h what "await subSplitable.hasValue" gave
parseObjectPair(sub, options, paths, result, length, h) ==
  IF h.st = "error" THEN Throws(h.rd, "Premature end")
  ELSE IF h.st = "end" THEN Returns(h.rd, Obj(result))
  ELSE IF length >= options.objectMaxLength
    THEN Throws(h.rd, "Object key value pairs count exceeded")
  ELSE parseObjectKey(sub, options, paths, result, length, readEnoughSize(h.rd, sub, 1))

\* the OBJECT branch's while loop
parseObject(rd, sub, options, paths, result, length) ==
  parseObjectPair(sub, options, paths, result, length, hasValue(rd, sub))

\* parser from the type byte on
parseType(sp, options, paths, type) ==
  IF ~type.ok THEN Throws(type.rd, "Premature end")
  ELSE IF type.bytes[1] = TYPES.NULL THEN Returns(type.rd, [t |-> "null"])
  ELSE IF type.bytes[1] = TYPES.UNDEFINED THEN Returns(type.rd, [t |-> "undefined"])
  ELSE IF type.bytes[1] = TYPES.BOOLEAN THEN parseBoolean(readEnoughSize(type.rd, sp, 1))
  ELSE IF type.bytes[1] = TYPES.NUMBER THEN parseNumber(readEnoughSize(type.rd, sp, 8))
  ELSE IF type.bytes[1] = TYPES.STREAM
    THEN parseStream(readChunkedStream(type.rd, sp, options.streamMaxSize))
  ELSE IF type.bytes[1] = TYPES.STRING
    THEN parseString(splitChunkedStream(type.rd, sp), sp + 1, options, 0, TextDecoder)
  ELSE IF type.bytes[1] = TYPES.ARRAY
    THEN parseArray(splitChunkedStream(type.rd, sp), sp + 1, options, paths, <<>>)
  ELSE IF type.bytes[1] = TYPES.OBJECT
    THEN parseObject(splitChunkedStream(type.rd, sp), sp + 1, options, paths, <<>>, 0)
  ELSE Throws(type.rd, "Invalid type")

parser(rd, sp, options, paths) ==
  IF depthExceeded(paths, options) THEN Throws(Called(rd, paths), "Depth exceeded")
  ELSE parseType(sp, options, paths, readEnoughSize(Called(rd, paths), sp, 1))

---------------------------------------------------------------------------
(* The consumer of an encoder: it starts the iteration, calls next() one   *)
(* call at a time and may call return().                                   *)

NoDec == [k |-> "none"]
DefaultOptions ==
  [streamMaxSize |-> Infinity, stringMaxSize |-> Infinity, arrayMaxLength |-> Infinity,
   objectMaxLength |-> Infinity, maxDepth |-> Infinity]

\* generator(value)[Symbol.asyncIterator]() or multiGenerator(values)[Symbol.asyncIterator]()
Start ==
  /\ phase = "init"
  /\ \E made \in {IF input.api = "generator"
                    THEN generator(input.values[1])
                    ELSE Made(MultiIter(input.values))} :
        /\ top' = made.it
        /\ phase' = IF made.k = "ok" THEN "iterating" ELSE "ended"
        /\ last' = IF made.k = "ok" THEN "none" ELSE "throw"
        /\ lastErr' = made.err
  /\ UNCHANGED <<input, out, failed, returned, opts, dec, calls>>

\* await iterator.next()
CallNext ==
  /\ phase = "iterating"
  /\ \E n \in {ItNext(top)} :
        /\ top' = n.it
        /\ out' = IF n.r.k = "value" THEN Append(out, n.r.item.bytes) ELSE out
        /\ last' = n.r.k
        /\ lastErr' = n.r.err
        /\ failed' = (failed \/ n.r.k = "throw")
  /\ UNCHANGED <<input, phase, returned, opts, dec, calls>>

\* await iterator.return()
CallReturn ==
  /\ phase = "iterating"
  /\ ~returned
  /\ \E n \in {ItReturn(top)} :
        /\ top' = n.it
        /\ last' = "returned"
        /\ lastErr' = n.r.err
  /\ returned' = TRUE
  /\ UNCHANGED <<input, phase, out, failed, opts, dec, calls>>

\* The options a decode may be given: the defaults, or one limit set.
LimitValues == 0..MaxLimit
OptionChoices ==
  {DefaultOptions}
    \cup {[DefaultOptions EXCEPT !.streamMaxSize = n] : n \in LimitValues}
    \cup {[DefaultOptions EXCEPT !.stringMaxSize = n] : n \in LimitValues}
    \cup {[DefaultOptions EXCEPT !.arrayMaxLength = n] : n \in LimitValues}
    \cup {[DefaultOptions EXCEPT !.objectMaxLength = n] : n \in LimitValues}
    \cup {[DefaultOptions EXCEPT !.maxDepth = n] : n \in LimitValues}

RECURSIVE parseMany(_, _, _, _)
\* what follows one "await parser(splitable, options)"
parsedOne(options, count, vals, one) ==
  IF one.k = "throw"
    THEN [k |-> "throw", err |-> one.err, vals |-> vals, rest |-> one.rd.buf,
          calls |-> one.rd.calls]
    ELSE parseMany(one.rd, options, count - 1, Append(vals, one.val))

\* count successive "await parser(splitable, options)" on one Splitable,
\* ending at the first that throws
parseMany(rd, options, count, vals) ==
  IF count = 0 THEN [k |-> "ok", err |-> "", vals |-> vals, rest |-> rd.buf, calls |-> rd.calls]
  ELSE parsedOne(options, count, vals, parser(rd, 0, options, <<>>))

\* The bytes of a finished encoding are decoded: one parser call per value.
Decode ==
  /\ phase = "iterating"
  /\ last = "done"
  /\ ~failed
  /\ ~returned
  /\ \E o \in OptionChoices :
       /\ opts' = o
       /\ dec' = parseMany(Reader(concat(out)), o, Len(input.values), <<>>)
  /\ phase' = "decoded"
  /\ UNCHANGED <<input, top, out, last, lastErr, failed, returned, calls>>

\* no call is suspended, none ever overlapped another
NoCalls == [pending |-> <<>>, overlapped |-> FALSE]

InitWith(inputs) ==
  /\ input \in inputs
  /\ calls = NoCalls
  /\ top = NoIter
  /\ phase = "init"
  /\ out = <<>>
  /\ last = "none"
  /\ lastErr = ""
  /\ failed = FALSE
  /\ returned = FALSE
  /\ opts = DefaultOptions
  /\ dec = NoDec

One(value) == [api |-> "generator", values |-> <<value>>]
Many(values) == [api |-> "multiGenerator", values |-> values]

---------------------------------------------------------------------------
(* The values encoded.                                                     *)

Null == [t |-> "null"]
Undef == [t |-> "undefined"]
Bool(b) == [t |-> "boolean", v |-> b]
Num(n) == [t |-> "number", v |-> n]
Bytes(b) == [t |-> "uint8array", v |-> b]
Stream(items) == [t |-> "asynciterable", v |-> items]
Function == [t |-> "function"]

Seqs(S, n) == UNION {[1..m -> S] : m \in 0..n}

\* A caller's byte source from the sizes of its pieces (-1: an item that is
\* no Uint8Array); the bytes are numbered on, so that each one is told apart.
RECURSIVE Before(_, _)
Before(kinds, i) ==
  IF i = 1 THEN 0
  ELSE Before(kinds, i - 1) + (IF kinds[i - 1] < 0 THEN 0 ELSE kinds[i - 1])

Items(kinds) ==
  [i \in 1..Len(kinds) |->
     IF kinds[i] < 0 THEN NotU8
     ELSE U8([j \in 1..kinds[i] |-> Before(kinds, i) + j])]

PieceKinds == {-1, 0, 1, SoftLimit, HardCap + 1, 2 * HardCap + 2}
Streams == {Stream(Items(kinds)) : kinds \in Seqs(PieceKinds, MaxPieces)}

\* strings: empty, one byte, multi-byte (2 + 4 bytes), and a leading U+FEFF
Strings == {Str(<<>>), Str(<<97>>), Str(<<228, 128522>>), Str(<<20013, 97>>),
            Str(<<BOM, 97>>)}

Scalars ==
  {Null, Undef, Bool(FALSE), Bool(TRUE)} \cup {Num(n) : n \in Doubles} \cup Strings
    \cup {Bytes(<<>>), Bytes(<<7>>), Bytes(<<1, 2, 3, 4, 5, 6, 7, 8, 9, 10, 11, 12>>)}

Elems == {Null, Bool(TRUE), Str(<<228>>), Bytes(<<7>>)}
Arrays == {Arr(s) : s \in Seqs(Elems, MaxLen)}

Keys == {<<97>>, <<228, 98>>, <<128522, 97, 98>>}
ObjectValues == {Null, Str(<<97, 98>>)}
Objects ==
  {Obj([i \in 1..Len(ks) |-> Pair(ks[i], vs[i])]) :
     <<ks, vs>> \in {p \in Seqs(Keys, MaxLen) \X Seqs(ObjectValues, MaxLen) :
                      /\ Len(p[1]) = Len(p[2])
                      /\ \A a, b \in 1..Len(p[1]) : a # b => p[1][a] # p[1][b]}}

Middles ==
  {Null, Arr(<<>>), Arr(<<Null, Null>>), Obj(<<Pair(<<97>>, Str(<<228>>))>>),
   Arr(<<Arr(<<Bool(FALSE)>>)>>)}
Nested ==
  {Arr(s) : s \in Seqs(Middles, 2)}
    \cup {Obj(<<Pair(<<102>>, m)>>) : m \in Middles}
    \cup {Obj(<<Pair(<<102>>, Obj(<<Pair(<<98>>, Str(<<98, 97, 122>>))>>))>>),
          Obj(<<Pair(<<102>>, Null), Pair(<<103>>, Arr(<<Null, Null, Null>>))>>),
          Arr(<<Obj(<<Pair(<<97>>, Null), Pair(<<98>>, Null)>>), Str(<<97, 98, 99>>)>>),
          Arr(<<Null, Arr(<<Null, Null, Null>>)>>),
          Arr(<<Ref(4), Ref(4)>>),
          Obj(<<Pair(<<97>>, Ref(4)), Pair(<<98>>, Arr(<<Ref(4)>>))>>),
          Arr(<<Stream(Items(<<1, 0, HardCap + 1>>)), Null>>),
          Obj(<<Pair(<<97>>, Stream(Items(<<2 * HardCap + 2, 1>>)))>>),
          Arr(<<Arr(<<Stream(Items(<<1, -1, 1>>))>>)>>)}

Unsupported ==
  {Function, Arr(<<Null, Function, Null>>), Obj(<<Pair(<<97>>, Arr(<<Function>>))>>)}

Cyclic ==
  {Ref(1), Ref(2), Ref(3), Arr(<<Null, Ref(2)>>), Obj(<<Pair(<<97>>, Ref(1))>>)}

Sequences ==
  {<<>>, <<Null, Ref(1), Null>>, <<Str(<<97>>), Bool(TRUE), Ref(2)>>,
   <<Bytes(<<7>>), Arr(<<Null>>), Num("0.1")>>, <<Null, Function, Null>>,
   <<Stream(Items(<<1, 0, HardCap + 1>>)), Stream(Items(<<1>>))>>,
   <<Arr(<<Stream(Items(<<HardCap + 1, 1>>))>>), Null>>,
   <<Str(<<>>), Arr(<<>>), Obj(<<Pair(<<97>>, Str(<<228>>))>>), Bytes(<<>>)>>,
   <<Str(<<BOM, 97>>), Null>>}

Inputs ==
  {One(v) : v \in Streams \cup Scalars \cup Arrays \cup Objects \cup Nested
                    \cup Unsupported \cup Cyclic}
    \cup {Many(vs) : vs \in Sequences}

Init == InitWith(Inputs)

Next == Start \/ CallNext \/ CallReturn \/ Decode

Spec == Init /\ [][Next]_vars

---------------------------------------------------------------------------
(* What the claims speak of.                                               *)

\* The value a decode should give back for an encoded value: a byte source
\* becomes the concatenation of its pieces, a reference the object it names.
RECURSIVE Plain(_)
Plain(value) ==
  LET val == Deref(value) IN
  CASE val.t = "asynciterable" ->
         Bytes(concat([i \in 1..Len(val.v) |-> val.v[i].bytes]))
    [] val.t = "array" -> Arr([i \in 1..Len(val.v) |-> Plain(val.v[i])])
    [] val.t = "object" ->
         Obj([i \in 1..Len(val.v) |-> Pair(val.v[i].key, Plain(val.v[i].value))])
    [] OTHER -> val

RECURSIVE Max(_)
Max(S) == IF S = {} THEN -1 ELSE LET x == CHOOSE x \in S : \A y \in S : y <= x IN x

\* every value of a tree: the value itself and the values below it
RECURSIVE Subvalues(_)
Subvalues(v) ==
  {v} \cup UNION {Subvalues(Children(v)[i]) : i \in 1..Len(Children(v))}

\* the most elements of an array, the most pairs of an object (-1: none)
MaxArrayLength(v) == Max({Len(a.v) : a \in {x \in Subvalues(v) : x.t = "array"}})
MaxObjectLength(v) == Max({Len(o.v) : o \in {x \in Subvalues(v) : x.t = "object"}})

\* the UTF-8 sizes of every string value and every object key
StringSizes(v) ==
  {Len(TextEncode(x.v)) : x \in {x \in Subvalues(v) : x.t = "string"}}
    \cup UNION {{Len(TextEncode(o.v[i].key)) : i \in 1..Len(o.v)} :
                  o \in {x \in Subvalues(v) : x.t = "object"}}

\* the access-path lengths of the values of a tree, in decoding order
RECURSIVE PathLengths(_, _), PathLengthsFrom(_, _, _)
PathLengths(v, depth) == <<depth>> \o PathLengthsFrom(Children(v), 1, depth + 1)
PathLengthsFrom(kids, i, depth) ==
  IF i > Len(kids) THEN <<>>
  ELSE PathLengths(kids[i], depth) \o PathLengthsFrom(kids, i + 1, depth)

\* the length of the longest access path
Depth(v) == Max({PathLengths(v, 0)[i] : i \in 1..Len(PathLengths(v, 0))})

IsPrefix(a, b) == Len(a) <= Len(b) /\ a = SubSeq(b, 1, Len(a))

\* a string value or key beginning with U+FEFF
LeadingBOM(v) ==
  \/ \E x \in Subvalues(v) : x.t = "string" /\ x.v # <<>> /\ x.v[1] = BOM
  \/ \E o \in Subvalues(v) : o.t = "object" /\
       \E i \in 1..Len(o.v) : o.v[i].key # <<>> /\ o.v[i].key[1] = BOM

\* one value was encoded to its end and decoded
DecodedOne == phase = "decoded" /\ input.api = "generator"
Encoded == Plain(input.values[1])

\* the decode was given exactly this one limit
Only(limit) ==
  /\ opts[limit] # Infinity
  /\ opts = [DefaultOptions EXCEPT ![limit] = opts[limit]]

DecodeThrew(msg) == dec.k = "throw" /\ dec.err = msg

---------------------------------------------------------------------------
(* C1: round trip: decoding, with the default limits, the bytes generator  *)
(* produced for a value gives back a value equal to it (a byte source      *)
(* comes back as the concatenation of its pieces, order is kept).          *)
C1_RoundTrip ==
  (DecodedOne /\ opts = DefaultOptions) => (dec.k = "ok" /\ dec.vals = <<Encoded>>)

\* What does hold: every value without a leading U+FEFF in a string or key
\* round-trips.
RoundTripWithoutBOM ==
  (DecodedOne /\ opts = DefaultOptions /\ ~LeadingBOM(Encoded))
    => (dec.k = "ok" /\ dec.vals = <<Encoded>>)

(* C3: objectMaxLength: a decode fails with the object limit error when    *)
(* some object holds more pairs than objectMaxLength, and only then.       *)
C3_ObjectMaxLength ==
  (DecodedOne /\ Only("objectMaxLength"))
    => (DecodeThrew("Object key value pairs count exceeded")
          <=> MaxObjectLength(Encoded) > opts.objectMaxLength)

(* C4: arrayMaxLength: a decode fails with the array limit error exactly   *)
(* when some array, at any level, holds more than arrayMaxLength elements  *)
(* (an array of exactly arrayMaxLength elements decodes), and no element   *)
(* at an index of arrayMaxLength or above is ever handed to parser.        *)
C4_ArrayMaxLength ==
  (DecodedOne /\ Only("arrayMaxLength"))
    => /\ DecodeThrew("Array length exceeded")
            <=> MaxArrayLength(Encoded) > opts.arrayMaxLength
       /\ MaxArrayLength(Encoded) <= opts.arrayMaxLength => dec.k = "ok"
       /\ \A c \in 1..Len(dec.calls) : \A j \in 1..Len(dec.calls[c]) :
            "index" \in DOMAIN dec.calls[c][j]
              => dec.calls[c][j].index < opts.arrayMaxLength

C4_Witness ==
  /\ DecodedOne /\ Only("arrayMaxLength")
  /\ DecodeThrew("Array length exceeded")
  /\ opts.arrayMaxLength = 2
  /\ Encoded.t = "array"
  /\ Len(Encoded.v) = 2
  /\ \E c \in 1..Len(dec.calls) : Len(dec.calls[c]) = 2

(* C5: maxDepth: a decode fails with the depth error exactly when some     *)
(* value's access path is longer than maxDepth; the paths parser is called *)
(* with have the lengths of the values' true depths, in decoding order,    *)
(* whatever siblings came before.                                          *)
C5_MaxDepth ==
  (DecodedOne /\ Only("maxDepth"))
    => /\ DecodeThrew("Depth exceeded") <=> Depth(Encoded) > opts.maxDepth
       /\ Depth(Encoded) <= opts.maxDepth => dec.k = "ok"
       /\ IsPrefix([c \in 1..Len(dec.calls) |-> Len(dec.calls[c])],
                   PathLengths(Encoded, 0))
       /\ dec.k = "throw" => Len(dec.calls[Len(dec.calls)]) = opts.maxDepth + 1

C5_Witness ==
  /\ DecodedOne /\ Only("maxDepth")
  /\ opts.maxDepth = 1
  /\ DecodeThrew("Depth exceeded")
  /\ Encoded = Obj(<<Pair(<<102>>, Obj(<<Pair(<<98>>, Str(<<98, 97, 122>>))>>))>>)

(* C6: stringMaxSize: a decode fails with a string size error exactly when *)
(* some string value or object key, at any level, takes more UTF-8 bytes   *)
(* than stringMaxSize; one of exactly stringMaxSize bytes decodes.         *)
C6_StringMaxSize ==
  (DecodedOne /\ Only("stringMaxSize"))
    => /\ (DecodeThrew("String size exceeded") \/ DecodeThrew("Size exceeded"))
            <=> Max(StringSizes(Encoded)) > opts.stringMaxSize
       /\ Max(StringSizes(Encoded)) <= opts.stringMaxSize => dec.k = "ok"

C6_Witness ==
  /\ DecodedOne /\ Only("stringMaxSize")
  /\ opts.stringMaxSize = 1
  /\ Encoded = Arr(<<Str(<<228>>)>>)
  /\ DecodeThrew("String size exceeded")

---------------------------------------------------------------------------
(* The encoder's side.                                                     *)

\* the iterators at work below the consumer's, outermost first
RECURSIVE Chain(_)
Chain(it) ==
  CASE it.cls \in {"Common", "Stream"} -> <<it>> \o Chain(it.source)
    [] it.cls = "Multi" -> <<it>> \o Chain(it.iterator)
    [] it.cls = "none" -> <<>>
    [] OTHER -> <<it>>

StreamIterators == {c \in {Chain(top)[i] : i \in 1..Len(Chain(top))} : c.cls = "Stream"}
AsyncSources == {c \in {Chain(top)[i] : i \in 1..Len(Chain(top))} : c.cls = "async"}

\* the length fields of the chunks in a byte sequence; -1 marks bytes that
\* do not make up whole chunks
RECURSIVE ChunkLengths(_)
ChunkLengths(b) ==
  IF b = <<>> THEN <<>>
  ELSE IF Len(b) < 4 THEN <<-1>>
  ELSE IF Len(b) < 4 + getUint32(b) THEN <<getUint32(b), -1>>
  ELSE <<getUint32(b)>> \o ChunkLengths(SubSeq(b, 5 + getUint32(b), Len(b)))

\* the consumer holds the StreamIterator of one String, Stream, Array or Object
TopStream == input.api = "generator" /\ phase # "init" /\ top.cls = "Stream"

\* what that StreamIterator emitted after the tag, as chunk lengths
Emitted == IF out = <<>> THEN <<>> ELSE ChunkLengths(Tail(concat(out)))

\* next() reported done because the upstream source was exhausted
Exhausted == last = "done" /\ ~returned

(* C2: chunk termination: what a StreamIterator emits after the tag is a   *)
(* sequence of whole chunks; no chunk but the last has length 0, a chunk   *)
(* of length 0 is emitted only on exhaustion, and once the source is       *)
(* exhausted the last chunk has length 0: exactly one, and the last.       *)
C2_ChunkTermination ==
  TopStream =>
    /\ \A i \in 1..Len(Emitted) : Emitted[i] >= 0
    /\ \A i \in 1..(Len(Emitted) - 1) : Emitted[i] > 0
    /\ (Emitted # <<>> /\ Emitted[Len(Emitted)] = 0) => top.done
    /\ Exhausted => (Emitted # <<>> /\ Emitted[Len(Emitted)] = 0)

C2_Witness ==
  /\ TopStream /\ Exhausted
  /\ input.values[1].t = "asynciterable"
  /\ \E i \in 1..Len(input.values[1].v) : input.values[1].v[i] = U8(<<>>)
  /\ Len(Emitted) >= 3

(* C7: hard cap: no StreamIterator stages more than the cap and chunkSize  *)
(* is the size of what is staged; no emitted chunk is longer than the cap; *)
(* a carry-over exists only right after a chunk of exactly the cap; the    *)
(* next chunk starts with the carry-over, and when the carry-over itself   *)
(* exceeds the cap that chunk is again one of exactly the cap, made        *)
(* without reading upstream; a piece larger than the cap ends up in at     *)
(* least two data chunks.                                                  *)
C7_Staged ==
  /\ \A it \in StreamIterators :
       /\ it.chunkSize <= HardCap
       /\ it.chunkSize = Len(concat(it.chunkData))
  /\ TopStream =>
       /\ \A i \in 1..Len(Emitted) : Emitted[i] <= HardCap
       /\ top.remain # Undefined => getUint32(out[Len(out)]) = HardCap
       /\ (Exhausted /\ top.source.cls \in {"array", "async"}
             /\ \E i \in 1..Len(top.source.items) :
                  Len(top.source.items[i].bytes) > HardCap)
            => Len(Emitted) >= 3

C7_CarryOver ==
  (TopStream /\ top.remain # Undefined /\ out' # out) =>
    LET chunk == out'[Len(out')]
        fits == IF Len(top.remain) < HardCap THEN Len(top.remain) ELSE HardCap
    IN /\ SubSeq(chunk, 5, 4 + fits) = SubSeq(top.remain, 1, fits)
       /\ Len(top.remain) > HardCap =>
            /\ getUint32(chunk) = HardCap
            /\ top'.remain = SubSeq(top.remain, HardCap + 1, Len(top.remain))
            /\ top'.source = top.source

C7_HardCap == [](C7_Staged) /\ [][C7_CarryOver]_vars

C7_Witness ==
  /\ TopStream
  /\ Len(top.remain) > HardCap
  /\ top.source.cls = "async"

---------------------------------------------------------------------------
(* Cycles of the object graph, found by following references.              *)

\* the objects a value written in place refers to, not looking inside them
RECURSIVE RefsIn(_)
RefsIn(v) ==
  CASE v.t = "ref" -> {v.id}
    [] v.t = "array" -> UNION {RefsIn(v.v[i]) : i \in 1..Len(v.v)}
    [] v.t = "object" -> UNION {RefsIn(v.v[i].value) : i \in 1..Len(v.v)}
    [] OTHER -> {}

RECURSIVE ReachFrom(_, _)
ReachFrom(ids, n) ==
  IF n = 0 THEN ids
  ELSE ReachFrom(ids \cup UNION {RefsIn(Heap[i]) : i \in ids}, n - 1)

\* the objects a value contains, at any depth
Contained(v) == ReachFrom(RefsIn(v), Len(Heap))

\* an object that contains itself
OnCycle(i) == i \in Contained(Heap[i])

\* an Array or Object in which some object contains itself or an ancestor
HasCycle(v) == IsObjectType(v) /\ \E i \in Contained(v) : OnCycle(i)

(* C8: cycle rejection: starting the iteration of an Array or Object that  *)
(* contains a cycle throws the circular-reference error and no iterator    *)
(* for it is ever made, so that no byte of it is produced; in a sequence   *)
(* of values the bytes produced are those of the values before it.         *)
C8_CycleRejection ==
  /\ (input.api = "generator" /\ HasCycle(input.values[1]))
       => /\ phase \in {"init", "ended"}
          /\ top = NoIter
          /\ out = <<>>
          /\ phase = "ended" => (last = "throw" /\ lastErr = "Circular reference!")
  /\ \A i \in 1..Len(input.values) :
       (input.api = "multiGenerator" /\ phase = "iterating" /\ HasCycle(input.values[i])
          /\ \A j \in 1..(i - 1) : ~HasCycle(input.values[j]))
       => /\ ~returned => top.index <= i - 1
          /\ top.index = i - 1 => top.iterator = NoIter
          /\ (top.index = i - 1 /\ last = "throw") =>
               /\ lastErr = "Circular reference!"
               /\ LET before == parseMany(Reader(concat(out)), DefaultOptions, i - 1, <<>>)
                  IN before.k = "ok" /\ before.rest = <<>>

C8_Witness ==
  /\ input.api = "multiGenerator"
  /\ Len(input.values) = 3 /\ input.values[3] = Ref(2)
  /\ last = "throw" /\ lastErr = "Circular reference!"
  /\ Len(concat(out)) > 2

C8_WitnessOne ==
  /\ input.api = "generator" /\ input.values[1] = Arr(<<Null, Ref(2)>>)
  /\ phase = "ended"

(* C9: cancellation: once the consumer has called return(), every iterator *)
(* down to the upstream byte source being driven is closed (done set, the  *)
(* sequence index at its end, the source released), and every later next() *)
(* reports done, yields nothing and leaves every source untouched.         *)
C9_Released ==
  returned =>
    \A i \in 1..Len(Chain(top)) :
      LET it == Chain(top)[i] IN
        /\ it.cls \in {"Common", "Stream"} => it.done
        /\ it.cls = "Multi" => it.index = Len(it.values)
        /\ it.cls = "async" => it.returned

C9_AfterReturn == returned => (out' = out /\ top' = top /\ last' = "done")

C9_Cancellation == [](C9_Released) /\ [][C9_AfterReturn]_vars

C9_Witness ==
  /\ returned /\ last = "done" /\ out # <<>>
  /\ Len(Chain(top)) = 4
  /\ Chain(top)[4].cls = "async"
  /\ Chain(top)[4].returned
  /\ Chain(top)[4].reads < Len(Chain(top)[4].items)

(* C10: encoder errors are terminal: once a next() has rejected, no later  *)
(* next() on that iterator yields a chunk or reads the upstream source.    *)
C10_ErrorsTerminal == [][failed => (out' = out /\ AsyncSources' = AsyncSources)]_vars

---------------------------------------------------------------------------
(* Children of a composite, one after the other.                           *)

\* what an iterator yields from now on, until it is done or throws
RECURSIVE Drain(_)
Drain(it) ==
  LET n == ItNext(it) IN
  IF n.r.k = "value" THEN <<n.r.item.bytes>> \o Drain(n.it) ELSE <<>>

\* the bytes of a value encoded on its own
Alone(v) ==
  LET made == generator(v) IN
  IF made.k = "ok" THEN concat(Drain(made.it)) ELSE <<>>

\* the data bytes of the chunks in a byte sequence, length fields left out
RECURSIVE ChunkData(_)
ChunkData(b) ==
  IF Len(b) < 4 THEN <<>>
  ELSE SubSeq(b, 5, 4 + getUint32(b)) \o ChunkData(SubSeq(b, 5 + getUint32(b), Len(b)))

\* the children in structural order: the elements of an Array, key1,
\* value1, key2, value2, ... of an Object, the values of a sequence
Siblings ==
  IF input.api = "multiGenerator" THEN input.values
  ELSE LET val == Deref(input.values[1]) IN
       IF val.t = "array" THEN val.v
       ELSE IF val.t = "object"
         THEN [i \in 1..(2 * Len(val.v)) |->
                 IF i % 2 = 1 THEN Str(val.v[(i + 1) \div 2].key)
                 ELSE val.v[i \div 2].value]
       ELSE <<>>

\* the consumer's iterator serialises children: it is the sequence iterator
\* itself, or the StreamIterator of an Array or Object over one
Serialising ==
  /\ phase \in {"iterating", "decoded"}
  /\ ~failed /\ ~returned
  /\ \/ top.cls = "Multi"
     \/ top.cls = "Stream" /\ top.source.cls = "Multi"

TheMulti == IF top.cls = "Multi" THEN top ELSE top.source

\* the children's bytes taken from the sequence iterator so far: emitted,
\* or staged in the StreamIterator above it
TakenSoFar ==
  IF top.cls = "Multi" THEN concat(out)
  ELSE (IF out = <<>> THEN <<>> ELSE ChunkData(Tail(concat(out))))
         \o concat(top.chunkData) \o top.remain

(* C11: sibling ordering: at most one child's encoder exists at a time, it *)
(* is the encoder of the child at the sequence's index, and the bytes      *)
(* taken so far followed by what that encoder has yet to yield are the     *)
(* complete encodings of the children up to it, concatenated in structural *)
(* order; at the end they are the encodings of all the children.           *)
C11_SiblingOrder ==
  Serialising =>
    LET m == TheMulti
        upto == IF m.iterator = NoIter THEN m.index ELSE m.index + 1
        rest == IF m.iterator = NoIter THEN <<>> ELSE concat(Drain(m.iterator))
    IN /\ upto <= Len(Siblings)
       /\ TakenSoFar \o rest = concat([j \in 1..upto |-> Alone(Siblings[j])])
       /\ last = "done" => (m.index = Len(Siblings) /\ m.iterator = NoIter)

C11_Witness ==
  /\ Serialising /\ top.cls = "Stream"
  /\ Deref(input.values[1]).t = "object"
  /\ Len(Siblings) = 4
  /\ TheMulti.index = 2
  /\ TheMulti.iterator # NoIter
  /\ Len(out) >= 2

---------------------------------------------------------------------------
(* C12: back-to-back values: a parser call that succeeds leaves nothing of *)
(* the value it decoded behind and takes nothing of what follows it: the   *)
(* bytes multiGenerator(values) produced, decoded by as many parser calls  *)
(* as there are values, give the values in order and leave the source      *)
(* exhausted.                                                              *)
C12_BackToBack ==
  /\ (phase = "decoded" /\ dec.k = "ok") => dec.rest = <<>>
  /\ (phase = "decoded" /\ input.api = "multiGenerator" /\ opts = DefaultOptions)
       => /\ dec.k = "ok"
          /\ dec.vals = [i \in 1..Len(input.values) |-> Plain(input.values[i])]

\* What does hold: the same, for sequences with no String or key that
\* starts with U+FEFF.
BackToBackWithoutBOM ==
  /\ (phase = "decoded" /\ dec.k = "ok") => dec.rest = <<>>
  /\ (phase = "decoded" /\ input.api = "multiGenerator" /\ opts = DefaultOptions
        /\ \A i \in 1..Len(input.values) : ~LeadingBOM(Plain(input.values[i])))
       => /\ dec.k = "ok"
          /\ dec.vals = [i \in 1..Len(input.values) |-> Plain(input.values[i])]

BackToBackReached ==
  /\ phase = "decoded" /\ input.api = "multiGenerator" /\ opts = DefaultOptions
  /\ Len(input.values) = 4
  /\ dec.k = "ok" /\ Len(dec.vals) = 4

---------------------------------------------------------------------------
(* The decoder on its own: parser handed a byte source that no encoder     *)
(* need have produced.  input is [api |-> "parser", values |-> <<tree>>,   *)
(* bytes, kind]: bytes is the source, tree what the bytes were made from.  *)
(* A tree is a value, or one of                                            *)
(*   [t |-> "bad", v |-> b]       a byte b that is no type code, where a   *)
(*                                value's tag is expected,                 *)
(*   [t |-> "badbool", v |-> b]   the BOOLEAN tag followed by the byte b,  *)
(*   [t |-> "rawobject", v |-> pairs]  an Object payload whose keys are    *)
(*                                trees of any kind.                       *)

Bad(b) == [t |-> "bad", v |-> b]
BadBool(b) == [t |-> "badbool", v |-> b]
RawObj(pairs) == [t |-> "rawobject", v |-> pairs]

\* a chunked payload in one data chunk (none when empty) and the terminator
Chunked(data) ==
  IF data = <<>> THEN <<0, 0, 0, 0>>
  ELSE setUint32(Len(data)) \o data \o <<0, 0, 0, 0>>

\* the bytes of a tree
RECURSIVE Wire(_)
Wire(v) ==
  CASE v.t = "bad" -> <<v.v>>
    [] v.t = "badbool" -> <<TYPES.BOOLEAN, v.v>>
    [] v.t = "array" ->
         <<TYPES.ARRAY>> \o Chunked(concat([i \in 1..Len(v.v) |-> Wire(v.v[i])]))
    [] v.t = "rawobject" ->
         <<TYPES.OBJECT>> \o
           Chunked(concat([i \in 1..Len(v.v) |-> Wire(v.v[i].key) \o Wire(v.v[i].value)]))
    [] OTHER -> Alone(v)

\* the trees: every malformation at the top level, as an array element at
\* either position, two levels down, and as an object's key or value
Wellformed == {Null, Bool(TRUE), Str(<<97>>), Arr(<<>>)}
Illformed == {Bad(8), Bad(255), BadBool(2), BadBool(255)}
RawKeys ==
  {Str(<<97>>), Str(<<98>>), Null, Bool(TRUE), Num("1"), Bytes(<<7>>), Arr(<<>>), Bad(8)}
RawPairs == {Pair(k, v) : k \in RawKeys, v \in {Null, Str(<<97>>), Bad(8), BadBool(2)}}
Trees ==
  Wellformed \cup Illformed
    \cup {Arr(s) : s \in Seqs(Wellformed \cup Illformed, 2)}
    \cup {Arr(<<Null, Arr(<<g, b>>), Null>>) : g \in Wellformed, b \in Illformed}
    \cup {RawObj(s) : s \in Seqs(RawPairs, 1)}
    \cup {RawObj(<<Pair(Str(<<97>>), Null), p>>) : p \in RawPairs}
    \cup {Arr(<<RawObj(<<p>>)>>) : p \in RawPairs}

\* the supported values whose encodings are cut short
Whole ==
  Scalars \cup Arrays \cup Objects
    \cup {v \in Streams : \A i \in 1..Len(v.v) : v.v[i].u8}
    \cup {v \in Nested : \A x \in Subvalues(v) :
            x.t # "asynciterable" \/ \A i \in 1..Len(x.v) : x.v[i].u8}

ParserInput(tree, bytes, kind) ==
  [api |-> "parser", values |-> <<tree>>, bytes |-> bytes, kind |-> kind]

\* the proper prefixes of the bytes of a value
Prefixes(v, bytes) ==
  {ParserInput(v, SubSeq(bytes, 1, n), "truncated") : n \in 0..(Len(bytes) - 1)}

ParserInputs ==
  {ParserInput(tree, Wire(tree), "tree") : tree \in Trees}
    \cup UNION {Prefixes(v, Alone(v)) : v \in Whole}

\* await parser(bytes)
Parse ==
  /\ phase = "init"
  /\ input.api = "parser"
  /\ dec' = parseMany(Reader(input.bytes), DefaultOptions, 1, <<>>)
  /\ phase' = "decoded"
  /\ UNCHANGED <<input, top, out, last, lastErr, failed, returned, opts, calls>>

ParserInit == InitWith(ParserInputs)

ParserSpec == ParserInit /\ [][Parse]_vars

---------------------------------------------------------------------------
(* What the format says of a tree, read off the tree and not the bytes:    *)
(* the first malformation in decoding order decides, and a key that is no  *)
(* String is an invalid key whatever else it is.                           *)

RECURSIVE Expect(_), ExpectElements(_, _, _), ExpectPairs(_, _, _)
Expect(v) ==
  CASE v.t = "bad" -> [k |-> "throw", err |-> "Invalid type"]
    [] v.t = "badbool" -> [k |-> "throw", err |-> "Invalid data"]
    [] v.t = "array" -> ExpectElements(v.v, 1, <<>>)
    [] v.t = "rawobject" -> ExpectPairs(v.v, 1, <<>>)
    [] OTHER -> [k |-> "ok", err |-> "", val |-> v]

ExpectElements(kids, i, acc) ==
  IF i > Len(kids) THEN [k |-> "ok", err |-> "", val |-> Arr(acc)]
  ELSE LET e == Expect(kids[i]) IN
       IF e.k = "throw" THEN e ELSE ExpectElements(kids, i + 1, Append(acc, e.val))

ExpectPairs(pairs, i, acc) ==
  IF i > Len(pairs) THEN [k |-> "ok", err |-> "", val |-> Obj(acc)]
  ELSE IF pairs[i].key.t # "string" THEN [k |-> "throw", err |-> "Invalid key"]
  ELSE LET e == Expect(pairs[i].value) IN
       IF e.k = "throw" THEN e
       ELSE ExpectPairs(pairs, i + 1, SetKey(acc, pairs[i].key.v, e.val))

Parsed(kind) == phase = "decoded" /\ input.api = "parser" /\ input.kind = kind
Expected == Expect(input.values[1])

\* parser and the format agree on every tree
ParserConforms ==
  Parsed("tree") =>
    /\ dec.k = Expected.k
    /\ dec.err = Expected.err
    /\ dec.k = "ok" => dec.vals = <<Expected.val>>

(* C13: malformed input: when the first malformation of the input, in      *)
(* decoding order, is a tag that is no type code (at the top level or at   *)
(* the place of a nested value) or a Boolean payload other than 0 and 1,   *)
(* parser throws the invalid-type, respectively invalid-data, error and    *)
(* returns no value.                                                       *)
C13_Malformed ==
  (Parsed("tree") /\ Expected.k = "throw" /\ Expected.err \in {"Invalid type", "Invalid data"})
    => (dec.k = "throw" /\ dec.err = Expected.err /\ dec.vals = <<>>)

C13_Witness ==
  /\ Parsed("tree")
  /\ input.values[1] = Arr(<<Null, Arr(<<Bool(TRUE), BadBool(2)>>), Null>>)
  /\ DecodeThrew("Invalid data")

(* C14: truncated input: parser handed a proper prefix of a value's        *)
(* encoding (the empty prefix and a prefix that stops right before the     *)
(* terminator among them) throws the premature-end error and returns no    *)
(* value.                                                                  *)
C14_Truncated ==
  Parsed("truncated") => (DecodeThrew("Premature end") /\ dec.vals = <<>>)

\* a String cut right before its terminator, after a whole data chunk
C14_Witness ==
  /\ Parsed("truncated")
  /\ input.values[1] = Str(<<20013, 97>>)
  /\ input.bytes = <<TYPES.STRING, 0, 0, 0, 4, 228, 184, 173, 97>>
  /\ DecodeThrew("Premature end")

\* the empty prefix, and an Array cut inside an element
C14_WitnessEmpty ==
  /\ Parsed("truncated")
  /\ input.bytes = <<>>
  /\ DecodeThrew("Premature end")

(* C15: object key tag check: when the first malformation of an Object     *)
(* payload, in decoding order, is a key position that holds a tag other    *)
(* than STRING, be it the type code of another kind or no type code at     *)
(* all, parser throws the invalid-key error and returns no value.          *)
C15_InvalidKey ==
  (Parsed("tree") /\ Expected.k = "throw" /\ Expected.err = "Invalid key")
    => (DecodeThrew("Invalid key") /\ dec.vals = <<>>)

\* the second key of an Object is a well-formed Uint8Array
C15_Witness ==
  /\ Parsed("tree")
  /\ input.values[1] = RawObj(<<Pair(Str(<<97>>), Null), Pair(Bytes(<<7>>), Str(<<97>>))>>)
  /\ DecodeThrew("Invalid key")

---------------------------------------------------------------------------
(* The chunker on a caller's byte source.                                  *)

\* the consumer holds the StreamIterator of a byte source whose items are
\* all Uint8Arrays, and has not called return()
TopBytes ==
  /\ TopStream /\ ~returned
  /\ input.values[1].t = "asynciterable"
  /\ \A i \in 1..Len(input.values[1].v) : input.values[1].v[i].u8

\* the pieces of that source, and their sizes
Pieces == [i \in 1..Len(input.values[1].v) |-> input.values[1].v[i].bytes]
Sizes == [i \in 1..Len(Pieces) |-> Len(Pieces[i])]

\* The chunk lengths the threshold rule gives for pieces that never meet
\* the hard cap: each piece is staged whole, a chunk goes out as soon as
\* the staged size has reached SoftLimit, the rest goes out at the end,
\* followed by the terminator if it was not empty.
RECURSIVE Threshold(_, _, _)
Threshold(sizes, i, staged) ==
  IF i > Len(sizes) THEN (IF staged = 0 THEN <<0>> ELSE <<staged, 0>>)
  ELSE IF staged + sizes[i] >= SoftLimit
    THEN <<staged + sizes[i]>> \o Threshold(sizes, i + 1, 0)
  ELSE Threshold(sizes, i + 1, staged + sizes[i])

(* C16: soft flush threshold: every chunk emitted before the upstream      *)
(* source is exhausted holds at least SoftLimit bytes; for pieces that     *)
(* stay clear of the hard cap the chunks are those of whole pieces, cut    *)
(* as soon as the staged size has reached SoftLimit and not before; a      *)
(* payload of less than SoftLimit bytes comes out in one chunk, made once  *)
(* the source has ended.                                                   *)
C16_SoftFlush ==
  /\ (TopStream /\ ~returned) =>
       \A j \in 2..Len(out) : (j < Len(out) \/ ~top.done) => getUint32(out[j]) >= SoftLimit
  /\ (TopBytes /\ \A i \in 1..Len(Sizes) : Sizes[i] <= SoftLimit) =>
       /\ IsPrefix(Emitted, Threshold(Sizes, 1, 0))
       /\ top.done => Emitted = Threshold(Sizes, 1, 0)
  /\ (TopBytes /\ Len(concat(Pieces)) < SoftLimit) =>
       /\ ~top.done => Len(out) <= 1
       /\ top.done => (Len(out) = 2 /\ getUint32(out[2]) = Len(concat(Pieces)))

\* a chunk above the threshold because of one large piece, more to come
C16_Witness ==
  /\ TopBytes /\ ~top.done
  /\ Sizes = <<1, SoftLimit, 1>>
  /\ Emitted = <<SoftLimit + 1>>

(* C17: byte preservation: the data bytes of the chunks emitted so far,    *)
(* then the staged pieces, then the carry-over, are the bytes of the       *)
(* pieces read so far, in arrival order; once the source is exhausted the  *)
(* emitted data bytes are those of all the pieces, and they decode to the  *)
(* same bytes; what is emitted is whole chunks, each length field counting *)
(* the data bytes after it; chunkSize is the size of what is staged.       *)
C17_BytePreservation ==
  /\ \A it \in StreamIterators : it.chunkSize = Len(concat(it.chunkData))
  /\ TopBytes =>
       LET data == IF out = <<>> THEN <<>> ELSE ChunkData(Tail(concat(out))) IN
       /\ \A i \in 1..Len(Emitted) : Emitted[i] >= 0
       /\ Len(data) + 4 * Len(Emitted) + (IF out = <<>> THEN 0 ELSE 1) = Len(concat(out))
       /\ data \o concat(top.chunkData) \o top.remain
            = concat(SubSeq(Pieces, 1, top.source.at - 1))
       /\ top.done => data = concat(Pieces)
       /\ (phase = "decoded" /\ opts = DefaultOptions)
            => (dec.k = "ok" /\ dec.vals = <<Bytes(concat(Pieces))>>)

\* empty pieces and a piece the hard cap splits, all delivered
C17_Witness ==
  /\ TopBytes /\ top.done
  /\ Sizes = <<0, HardCap + 1, 1>>
  /\ Emitted = <<HardCap, 2, 0>>

---------------------------------------------------------------------------
(* A consumer that starts the iteration and keeps calling next(), one call *)
(* at a time (each call is awaited: a call that can be made is made).      *)

NextOnly == Start \/ CallNext

DrainSpec == Init /\ [][NextOnly]_vars /\ WF_vars(Start) /\ WF_vars(CallNext)

\* every value is of a supported kind, no object contains itself, and every
\* byte source delivers Uint8Arrays only, finitely many
Encodable ==
  \A i \in 1..Len(input.values) :
    /\ ~HasCycle(input.values[i])
    /\ \A x \in Subvalues(input.values[i]) :
         /\ Deref(x).t # "function"
         /\ Deref(x).t = "asynciterable" => \A j \in 1..Len(x.v) : x.v[j].u8

\* next() has reported done, after the terminator where there is one
ReportedDone ==
  /\ last = "done"
  /\ TopStream => (Emitted # <<>> /\ Emitted[Len(Emitted)] = 0 /\ top.done)

\* the consumer's iterator is over
Over ==
  \/ last = "done"
  \/ top.cls \in {"Common", "Stream"} /\ top.done

\* a next() on an iterator that is over reports done and changes nothing:
\* no byte is emitted, no source is read
StaysOver == Over => (out' = out /\ top' = top /\ last' = "done")

(* C18: encoder termination: a consumer that keeps calling next() on the   *)
(* encoder of supported values, whose byte sources end after finitely many *)
(* pieces, is eventually told done, after the terminator of a chunked      *)
(* value has been emitted; from the final chunk on, every next() reports   *)
(* done, emits nothing and reads no source.                                *)
C18_Termination == (Encodable ~> ReportedDone) /\ [][StaysOver]_vars

C18_Witness ==
  /\ Encodable /\ ReportedDone /\ TopStream
  /\ top.source.cls = "async"
  /\ Len(top.source.items) = 3
  /\ top.source.reads = 4
  /\ Len(out) >= 3

---------------------------------------------------------------------------
\* some value on the path from the root down to this value comes again
\* below it
RECURSIVE Revisits(_, _)
Revisits(value, path) ==
  \/ value \in path
  \/ /\ IsObjectType(value)
     /\ \E i \in 1..Len(Children(value)) :
          Revisits(Children(value)[i], path \cup {value})

\* one object of the graph stands at two positions of a value
SharedIn(v) ==
  \E x, y \in Subvalues(v) :
    \E i \in 1..Len(Children(x)), j \in 1..Len(Children(y)) :
      /\ <<x, i>> # <<y, j>>
      /\ Children(x)[i].t = "ref"
      /\ Children(x)[i] = Children(y)[j]

(* C19: cycle detector precision: hasCircular answers true exactly when a  *)
(* value on the current ancestor path is met again, which is exactly when  *)
(* the value contains a cycle; after a traversal that found none the set   *)
(* of tracked objects is empty again.  A value without a cycle in which    *)
(* one object stands at two positions is encoded without error, to the     *)
(* bytes of the value with a copy of the object at each position, and      *)
(* decodes to that.                                                        *)
C19_CyclePrecision ==
  /\ \A i \in 1..Len(input.values) :
       /\ hasCircular(input.values[i], {}).res <=> Revisits(input.values[i], {})
       /\ hasCircular(input.values[i], {}).res <=> HasCycle(input.values[i])
       /\ ~Revisits(input.values[i], {}) => hasCircular(input.values[i], {}).refs = {}
  /\ (input.api = "generator" /\ ~HasCycle(input.values[1])
        /\ SharedIn(input.values[1]))
       => /\ ~failed
          /\ (last = "done" /\ ~returned) => concat(out) = Alone(Plain(input.values[1]))
          /\ (phase = "decoded" /\ opts = DefaultOptions)
               => (dec.k = "ok" /\ dec.vals = <<Plain(input.values[1])>>)

C19_Witness ==
  /\ input.api = "generator"
  /\ input.values[1] = Obj(<<Pair(<<97>>, Ref(4)), Pair(<<98>>, Arr(<<Ref(4)>>))>>)
  /\ phase = "decoded" /\ opts = DefaultOptions
  /\ dec.k = "ok"

C19_WitnessSiblings ==
  /\ input.api = "generator"
  /\ input.values[1] = Arr(<<Ref(4), Ref(4)>>)
  /\ last = "done" /\ ~returned
  /\ Len(concat(out)) > 8

---------------------------------------------------------------------------
(* Calls of StreamIterator.next that overlap.  A call runs without         *)
(* interruption from its entry to "await this.source.next()", where it has *)
(* asked the source for its next item and is suspended.  The items come in *)
(* the order they were asked for; the call an item is for runs on from the *)
(* test of item.done to its return, or through "return this.next()" to the *)
(* next await.  calls.pending holds the items asked for and not yet taken. *)

Suspended == [k |-> "suspended", item |-> NotU8, err |-> ""]

\* what a call that returned, or is suspended, leaves behind
Left(it, pending, r) == [it |-> it, pending |-> pending, r |-> r]

RECURSIVE StreamEnter(_, _), StreamResumed(_, _, _)
\* StreamIterator.next from its entry to a return or to the await
StreamEnter(it, pending) ==
  IF it.done THEN Left(it, pending, DoneResult)
  ELSE IF it.prefix # Undefined
    THEN Left([it EXCEPT !.prefix = Undefined], pending, Yield(U8(it.prefix)))
  ELSE IF it.chunkSize >= SoftLimit
    THEN The({Left(f.it, pending, Yield(U8(f.chunk))) : f \in {flushChunk(it, FALSE)}})
  ELSE IF Len(it.remain) > 0
    THEN StreamResumed([it EXCEPT !.remain = Undefined], pending, Yield(U8(it.remain)))
  ELSE The({Left([it EXCEPT !.source = n.it], Append(pending, n.r), Suspended) :
              n \in {ItNext(it.source)}})

\* StreamIterator.next from "if (item.done)" on, with the item it awaited
StreamResumed(it, pending, item) ==
  IF item.k = "throw" THEN Left(it, pending, item)
  ELSE IF item.k = "done"
    THEN The({Left(f.it, pending, Yield(U8(f.chunk))) :
                f \in {flushChunk([it EXCEPT !.done = TRUE], TRUE)}})
  ELSE IF ~item.item.u8 THEN Left(it, pending, Throw("Invalid data"))
  ELSE The({StreamEnter(staged, pending) : staged \in {stage(it, item.item.bytes)}})

\* the iterator, the suspended calls and the consumer's view after a step
\* of a call
Stepped(n) ==
  /\ top' = n.it
  /\ calls' = [pending |-> n.pending,
               overlapped |-> calls.overlapped \/ Len(n.pending) >= 2]
  /\ out' = IF n.r.k = "value" THEN Append(out, n.r.item.bytes) ELSE out
  /\ last' = IF n.r.k = "suspended" THEN last ELSE n.r.k
  /\ lastErr' = IF n.r.k = "suspended" THEN lastErr ELSE n.r.err
  /\ failed' = (failed \/ n.r.k = "throw")

\* iterator.next(), not awaited: the call runs to its return or to its await
Pull ==
  /\ phase = "iterating"
  /\ top.cls = "Stream"
  /\ Len(calls.pending) < MaxPending
  /\ \E n \in {StreamEnter(top, calls.pending)} : Stepped(n)
  /\ UNCHANGED <<input, phase, returned, opts, dec>>

\* the source answers the oldest request and the call that made it runs on
Resume ==
  /\ phase = "iterating"
  /\ calls.pending # <<>>
  /\ \E n \in {StreamResumed(top, Tail(calls.pending), Head(calls.pending))} :
        Stepped(n)
  /\ UNCHANGED <<input, phase, returned, opts, dec>>

\* Strings and caller's byte sources: the values whose StreamIterator reads
\* a source of bytes
OverlapInputs == {One(v) : v \in Streams \cup Strings}

OverlapInit == InitWith(OverlapInputs)

OverlapNext == Start \/ Pull \/ Resume

OverlapSpec == OverlapInit /\ [][OverlapNext]_vars

\* the stream is over and every call made has returned, none with an error
AllResolved ==
  /\ phase = "iterating" /\ top.cls = "Stream"
  /\ top.done
  /\ calls.pending = <<>>
  /\ ~failed

\* the bytes the source delivered, in the order of arrival
SourceBytes ==
  IF input.values[1].t = "string" THEN TextEncode(input.values[1].v)
  ELSE Plain(input.values[1]).v

\* the bytes of all calls form one chunked stream of the source's bytes
WellFormedStream ==
  /\ Emitted # <<>>
  /\ \A i \in 1..(Len(Emitted) - 1) : Emitted[i] > 0
  /\ Emitted[Len(Emitted)] = 0
  /\ ChunkData(Tail(concat(out))) = SourceBytes

(* C20: overlapping pulls: when next() is called again before earlier      *)
(* calls have resolved, the bytes of all resolved calls still form a       *)
(* well-formed chunked stream: chunks of positive length, then exactly one *)
(* zero-length terminator, and the data of the chunks are the source's     *)
(* bytes, each once, in arrival order.                                     *)
C20_OverlappingPulls == AllResolved => WellFormedStream

\* What does hold: calls none of which was suspended together with another
\* give a well-formed stream.
OneAtATime == (AllResolved /\ ~calls.overlapped) => WellFormedStream

\* two calls were suspended together and all calls have returned
OverlapResolved == AllResolved /\ calls.overlapped

\* a stream of calls that never overlapped is over
OneAtATimeResolved ==
  /\ AllResolved /\ ~calls.overlapped
  /\ input.values[1].t = "asynciterable" /\ Len(input.values[1].v) = 3

====
